---- MODULE Spec2Model ----
(***************************************************************************)
(* Dispatch-and-fold machinery of the array task variants:                 *)
(*   - the operator registry UnaryRedOp and op_dispatch                     *)
(*     (src/src/unary/unary_red_util.h),                                    *)
(*   - the type-erased reduction operator UntypedScalarRedOp (same file),   *)
(*   - the OpenMP per-lane partial reduction ScalarUnaryRedImplBody<OMP>    *)
(*     (src/src/unary/scalar_unary_red_omp.cc),                             *)
(*   - the empty-domain handling of the repeat and transpose task shims     *)
(*     (src/src/cupynumeric/index/repeat_template.inl,                      *)
(*      src/src/cupynumeric/matrix/transpose_template.inl).                 *)
(*                                                                         *)
(* assert() is modelled as compiled in (no source file defines NDEBUG): a   *)
(* failed assertion aborts the invocation.                                  *)
(***************************************************************************)
EXTENDS Integers, Sequences, FiniteSets, TLC

VARIABLES
  \* ScalarUnaryRedImplBody<OMP>::operator()
  rpc,          \* position: "idle", "parallel", "combine", "done"
  op_code,      \* template parameter OP_CODE
  code,         \* template parameter CODE
  inptr,        \* the elements of rect, in index order
  dense,        \* parameter dense
  max_threads,  \* omp_get_max_threads()
  owner,        \* owner[i]: the lane the loop schedule gives element i to
  locals,       \* the per-lane accumulators
  result,       \* the shared result reference
  visited,      \* the elements already folded into a lane accumulator
  idx,          \* loop variable of the final combine
  touched,      \* <<tid, slot>>: lane tid has accessed locals[slot]
  combined,     \* the lanes whose accumulator was folded into result, in order
  \* UntypedScalarRedOp<OP_CODE>
  upc,          \* "idle", "live" or "aborted" (an assertion failed)
  uop,          \* template parameter OP_CODE
  lhs,          \* the accumulated UntypedScalar: [code, payload]
  ucall,        \* the last call of apply or fold
  ncalls,       \* the calls made so far
  rhs_codes,    \* the type tags of the right-hand values passed so far
  \* op_dispatch
  dpc,          \* "idle", "returned" or "aborted" (an assertion failed)
  dcode,        \* argument op_code
  dargs,        \* the extra arguments args...
  invoked,      \* the specializations of f invoked: [OP, args], in order
  \* the repeat and transpose tasks
  spc,          \* "idle" or "returned"
  task,         \* "repeat" or "transpose"
  targs,        \* the task's argument bundle (RepeatArgs, TransposeArgs)
  events        \* the store operations and kernel bodies the task ran, in order

redVars == <<rpc, op_code, code, inptr, dense, max_threads, owner, locals,
             result, visited, idx, touched, combined>>

untVars == <<upc, uop, lhs, ucall, ncalls, rhs_codes>>

dspVars == <<dpc, dcode, dargs, invoked>>

shimVars == <<spc, task, targs, events>>

vars == <<redVars, untVars, dspVars, shimVars>>

----------------------------------------------------------------------------
(* Bounds of the model *)

\* scaled-down bit width of the integer element types
Width == 2
\* largest rect.volume() of a reduction
MaxVolume == 2
\* largest omp_get_max_threads()
MaxThreads == 2
\* largest number of apply and fold calls on one accumulated value
MaxCalls == 2
\* the payloads of the right-hand values are 0 .. MaxPayload
MaxPayload == 1

\* op_dispatch is called with the op_code values 0 .. MaxOpCode
MaxOpCode == 5
\* the extra arguments of op_dispatch: at most MaxArgs values 0 .. MaxArgVal
MaxArgs == 2
MaxArgVal == 3
\* the stores of the repeat task have 1 .. MaxDim dimensions
MaxDim == 2
\* the bounds of a rectangle are 0 .. MaxCoord in every dimension
MaxCoord == 1
\* the scalar repeat count is 0 .. MaxRepeats
MaxRepeats == 1

\* assert() is compiled in: no source file defines NDEBUG
NDEBUG == FALSE

----------------------------------------------------------------------------
(* Operator codes and element type codes *)

MAX == 1
MIN == 2
PROD == 3
SUM == 4

\* enum class UnaryRedCode
UnaryRedCode == {MAX, MIN, PROD, SUM}

\* the element types the tasks are instantiated for
LegateTypeCode ==
  { "HALF_LT", "FLOAT_LT", "DOUBLE_LT",
    "INT16_LT", "INT32_LT", "INT64_LT",
    "UINT16_LT", "UINT32_LT", "UINT64_LT",
    "BOOL_LT", "COMPLEX64_LT", "COMPLEX128_LT" }

\* the sentinel tag of an empty UntypedScalar
MAX_TYPE_NUMBER == "MAX_TYPE_NUMBER"

ComplexCodes == {"COMPLEX64_LT", "COMPLEX128_LT"}

\* one signed, one unsigned integer type and bool stand for the integer and
\* boolean element types; the integer types differ only in their bit width,
\* which the model scales down to Width
IntegralCodes == {"BOOL_LT", "INT32_LT", "UINT32_LT"}

RECURSIVE Pow2(_)
Pow2(n) == IF n = 0 THEN 1 ELSE 2 * Pow2(n - 1)

\* legate_type_of<CODE>: the values of an integral element type
lowest(CODE) == IF CODE = "INT32_LT" THEN 0 - Pow2(Width - 1) ELSE 0
highest(CODE) ==
  IF CODE = "BOOL_LT" THEN 1
  ELSE IF CODE = "INT32_LT" THEN Pow2(Width - 1) - 1
  ELSE Pow2(Width) - 1
legate_type_of(CODE) == lowest(CODE) .. highest(CODE)

\* conversion of an arithmetic result back to VAL: bool is true for every
\* nonzero value, the integers keep their low Width bits (a signed result
\* that overflows wraps, as the two's-complement targets compute it)
ToVAL(CODE, x) ==
  IF CODE = "BOOL_LT" THEN (IF x = 0 THEN 0 ELSE 1)
  ELSE IF CODE = "INT32_LT"
       THEN ((x + Pow2(Width - 1)) % Pow2(Width)) - Pow2(Width - 1)
  ELSE x % Pow2(Width)

----------------------------------------------------------------------------
(* Operator registry *)

\* (mutant) the specializations for COMPLEX128_LT are missing
validPrimaryOnly(OP_CODE, TYPE_CODE) == OP_CODE \in UnaryRedCode

\* UnaryRedOp<OP_CODE, TYPE_CODE>::valid
valid(OP_CODE, TYPE_CODE) ==
  IF OP_CODE \notin UnaryRedCode THEN FALSE
  ELSE IF OP_CODE = MAX /\ TYPE_CODE = "COMPLEX128_LT" THEN FALSE
  ELSE IF OP_CODE = MIN /\ TYPE_CODE = "COMPLEX128_LT" THEN FALSE
  ELSE IF OP_CODE = PROD /\ TYPE_CODE = "COMPLEX128_LT" THEN FALSE
  ELSE TRUE

\* UnaryRedOp<OP_CODE, CODE>::identity
identity(OP_CODE, CODE) ==
  IF OP_CODE = MAX THEN lowest(CODE)
  ELSE IF OP_CODE = MIN THEN highest(CODE)
  ELSE IF OP_CODE = PROD THEN 1
  ELSE 0

\* UnaryRedOp<OP_CODE, CODE>::fold<EXCLUSIVE>(rhs1, rhs2): the new rhs1
UnaryRedOp_fold(OP_CODE, CODE, rhs1, rhs2) ==
  IF OP_CODE = MAX THEN (IF rhs2 > rhs1 THEN rhs2 ELSE rhs1)
  ELSE IF OP_CODE = MIN THEN (IF rhs2 < rhs1 THEN rhs2 ELSE rhs1)
  ELSE IF OP_CODE = PROD THEN ToVAL(CODE, rhs1 * rhs2)
  ELSE ToVAL(CODE, rhs1 + rhs2)

----------------------------------------------------------------------------
(* ScalarUnaryRedImplBody<VariantKind::OMP, OP_CODE, CODE, DIM>::operator() *)

\* (mutant) the accumulators left zero-initialised
LocalsInitZero(OP_CODE, CODE, n) == [t \in 0 .. n - 1 |-> 0]

\* for (idx = 0; idx < max_threads; ++idx) locals[idx] = OP::identity
LocalsInit(OP_CODE, CODE, n) == [t \in 0 .. n - 1 |-> identity(OP_CODE, CODE)]

\* (mutant) every lane folds into locals[0]
LaneSlotShared(tid) == 0

\* the accumulator lane tid folds into: locals[tid]
LaneSlot(tid) == tid

\* the implicit barrier closing the parallel region: every iteration of the
\* loop has run
AllLanesDone == visited = 1 .. Len(inptr)

\* (mutant) the combine loop stops one lane early
CombineBoundOffByOne(n) == n - 1

\* the bound of the combine loop: idx < max_threads
CombineBound(n) == n

\* (mutant) the combine loop walks the lanes from the last to the first
CombineSlotReversed(i) == max_threads - 1 - i

\* the accumulator the combine loop reads at index i: locals[idx]
CombineSlot(i) == i

\* the value the caller, scalar_unary_red_template, gives result before it
\* calls the body: VAL result = OP::identity
ResultOnEntry(OP_CODE, CODE) == identity(OP_CODE, CODE)

RedIdle ==
  /\ rpc = "idle" /\ op_code = 0 /\ code = "" /\ inptr = <<>> /\ dense = FALSE
  /\ max_threads = 0 /\ owner = <<>> /\ locals = <<>> /\ result = 0
  /\ visited = {} /\ idx = 0 /\ touched = {} /\ combined = <<>>

\* entry of operator(): volume, max_threads, the accumulators seeded with
\* identity; the schedule of the parallel loop is fixed for the run
Enter ==
  /\ rpc = "idle"
  /\ \E OP \in UnaryRedCode, C \in IntegralCodes, n \in 1 .. MaxThreads,
        volume \in 0 .. MaxVolume, d \in BOOLEAN :
       \E in \in [1 .. volume -> legate_type_of(C)],
          sched \in [1 .. volume -> 0 .. n - 1] :
         /\ op_code' = OP /\ code' = C /\ max_threads' = n /\ dense' = d
         /\ inptr' = in /\ owner' = sched
         /\ result' = ResultOnEntry(OP, C)
         /\ locals' = LocalsInit(OP, C, n)
  /\ rpc' = "parallel"
  /\ visited' = {} /\ idx' = 0 /\ touched' = {} /\ combined' = <<>>
  /\ UNCHANGED <<untVars, dspVars, shimVars>>

\* the next iteration of lane tid: its lowest element not yet folded
NextOf(tid) ==
  LET mine == {i \in (1 .. Len(inptr)) \ visited : owner[i] = tid}
  IN  IF mine = {} THEN 0 ELSE CHOOSE i \in mine : \A j \in mine : i <= j

\* one iteration of a lane: OP::fold<true>(locals[tid], x)
LaneFold(tid) ==
  /\ rpc = "parallel"
  /\ NextOf(tid) # 0
  /\ LET i == NextOf(tid)
         s == LaneSlot(tid)
     IN  /\ locals' = [locals EXCEPT
                         ![s] = UnaryRedOp_fold(op_code, code, locals[s], inptr[i])]
         /\ touched' = touched \cup {<<tid, s>>}
         /\ visited' = visited \cup {i}
  /\ UNCHANGED <<rpc, op_code, code, inptr, dense, max_threads, owner, result,
                 idx, combined>>
  /\ UNCHANGED <<untVars, dspVars, shimVars>>

\* dense: #pragma omp for schedule(static) over inptr[idx]
DenseLoop(tid) == dense /\ LaneFold(tid)

\* not dense: OMPLoop<DIM>::unary_reduction_loop(OP{}, locals, rect, in)
unary_reduction_loop(tid) == ~dense /\ LaneFold(tid)

\* the end of the parallel region
Join ==
  /\ rpc = "parallel"
  /\ AllLanesDone
  /\ rpc' = "combine"
  /\ idx' = 0
  /\ UNCHANGED <<op_code, code, inptr, dense, max_threads, owner, locals, result,
                 visited, touched, combined>>
  /\ UNCHANGED <<untVars, dspVars, shimVars>>

\* for (idx = 0; idx < max_threads; ++idx) OP::fold<true>(result, locals[idx])
Combine ==
  /\ rpc = "combine"
  /\ idx < CombineBound(max_threads)
  /\ result' = UnaryRedOp_fold(op_code, code, result, locals[CombineSlot(idx)])
  /\ combined' = Append(combined, CombineSlot(idx))
  /\ idx' = idx + 1
  /\ UNCHANGED <<rpc, op_code, code, inptr, dense, max_threads, owner, locals,
                 visited, touched>>
  /\ UNCHANGED <<untVars, dspVars, shimVars>>

\* the combine loop ends and operator() returns
Return ==
  /\ rpc = "combine"
  /\ ~(idx < CombineBound(max_threads))
  /\ rpc' = "done"
  /\ UNCHANGED <<op_code, code, inptr, dense, max_threads, owner, locals, result,
                 visited, idx, touched, combined>>
  /\ UNCHANGED <<untVars, dspVars, shimVars>>

----------------------------------------------------------------------------
(* UntypedScalarRedOp<OP_CODE> *)

\* an UntypedScalar: its type tag and its payload. The payload is kept as the
\* sequence of the <<tag, value>> operands merged into it, in order, so that
\* the typed operators OP::apply and OP::fold stay uninterpreted
EmptyScalar == [code |-> MAX_TYPE_NUMBER, payload |-> <<>>]
TypedScalar(T, v) == [code |-> T, payload |-> << <<T, v>> >>]

RhsValues ==
  {EmptyScalar} \cup {TypedScalar(T, v) : T \in LegateTypeCode, v \in 0 .. MaxPayload}

NoCall ==
  [fn |-> "none", EXCLUSIVE |-> TRUE, pre |-> EmptyScalar, rhs |-> EmptyScalar,
   dispatched |-> "none", overload |-> "none", outcome |-> "none"]

\* type_dispatch(code, Fn{}, lhs, rhs): the TYPE_CODE Fn is instantiated
\* with; a tag that is no element type is an assertion failure
type_dispatch(c) == IF c \in LegateTypeCode THEN c ELSE "assert"

\* (mutant) the overload for invalid pairs is missing
apply_fnUnchecked(OP_CODE, TYPE_CODE) == "OP::apply"

\* apply_fn<EXCLUSIVE>::operator()<TYPE_CODE>: the overload enable_if selects
apply_fn(OP_CODE, TYPE_CODE) ==
  IF valid(OP_CODE, TYPE_CODE) THEN "OP::apply" ELSE "assert(false)"

\* fold_fn<EXCLUSIVE>::operator()<TYPE_CODE>: the overload enable_if selects
fold_fn(OP_CODE, TYPE_CODE) ==
  IF valid(OP_CODE, TYPE_CODE) THEN "OP::fold" ELSE "assert(false)"

\* the outcomes of one call: the new left-hand value and what the call did
Outcome(l, d, o, how) ==
  [lhs |-> l, dispatched |-> d, overload |-> o, outcome |-> how]

\* the typed operator run on the two payloads: the left payload becomes the
\* merge of both. The bytes of r are read as the left-hand type whatever the
\* tag of r is; an empty r has no bytes to read (one of: a fault, any value)
Merged(l, r) ==
  IF r.code = MAX_TYPE_NUMBER
  THEN {[l EXCEPT !.payload = Append(l.payload, <<MAX_TYPE_NUMBER, v>>)] :
          v \in 0 .. MaxPayload}
  ELSE {[l EXCEPT !.payload = l.payload \o r.payload]}

Faults(l, r) == r.code = MAX_TYPE_NUMBER

\* the dispatching branch shared by apply and fold
Dispatch(overloadOf, l, r) ==
  LET T == type_dispatch(l.code)
      o == IF T = "assert" THEN "none" ELSE overloadOf
  IN  IF T = "assert" THEN
        IF NDEBUG THEN {Outcome(l, l.code, "none", "returned")}
        ELSE {Outcome(l, l.code, "none", "assert")}
      ELSE IF o = "assert(false)" THEN
        IF NDEBUG THEN {Outcome(l, T, o, "returned")}
        ELSE {Outcome(l, T, o, "assert")}
      ELSE {Outcome(m, T, o, "returned") : m \in Merged(l, r)}
           \cup (IF Faults(l, r) THEN {Outcome(l, T, o, "fault")} ELSE {})

\* (mutant) the emptiness test reads the right-hand value's tag
UntypedScalarRedOp_applyTestsRhs(EXCLUSIVE, l, r) ==
  IF ~EXCLUSIVE /\ ~NDEBUG THEN {Outcome(l, "none", "none", "assert")}
  ELSE IF MAX_TYPE_NUMBER = r.code THEN {Outcome(r, "none", "none", "returned")}
  ELSE Dispatch(IF l.code \in LegateTypeCode THEN apply_fn(uop, l.code) ELSE "none",
                l, r)

\* (mutant) the assignment copies the payload and leaves the tag
UntypedScalarRedOp_applyKeepsTag(EXCLUSIVE, l, r) ==
  IF ~EXCLUSIVE /\ ~NDEBUG THEN {Outcome(l, "none", "none", "assert")}
  ELSE IF MAX_TYPE_NUMBER = l.code
       THEN {Outcome([l EXCEPT !.payload = r.payload], "none", "none", "returned")}
  ELSE Dispatch(apply_fn(uop, l.code), l, r)

\* UntypedScalarRedOp<OP_CODE>::apply<EXCLUSIVE>(lhs, rhs)
UntypedScalarRedOp_apply(EXCLUSIVE, l, r) ==
  IF ~EXCLUSIVE /\ ~NDEBUG THEN {Outcome(l, "none", "none", "assert")}
  ELSE IF MAX_TYPE_NUMBER = l.code THEN {Outcome(r, "none", "none", "returned")}
  ELSE Dispatch(apply_fn(uop, l.code), l, r)

\* UntypedScalarRedOp<OP_CODE>::fold<EXCLUSIVE>(rhs1, rhs2)
UntypedScalarRedOp_fold(EXCLUSIVE, rhs1, rhs2) ==
  IF ~EXCLUSIVE /\ ~NDEBUG THEN {Outcome(rhs1, "none", "none", "assert")}
  ELSE IF MAX_TYPE_NUMBER = rhs1.code
       THEN {Outcome(rhs2, "none", "none", "returned")}
  ELSE Dispatch(fold_fn(uop, rhs1.code), rhs1, rhs2)

UntIdle ==
  /\ upc = "idle" /\ uop = 0 /\ lhs = EmptyScalar /\ ucall = NoCall
  /\ ncalls = 0 /\ rhs_codes = {}

\* a reduction with operator OP_CODE starts from an empty UntypedScalar
Construct ==
  /\ upc = "idle"
  /\ \E OP \in UnaryRedCode : uop' = OP
  /\ upc' = "live"
  /\ lhs' = EmptyScalar
  /\ UNCHANGED <<ucall, ncalls, rhs_codes>>
  /\ UNCHANGED <<redVars, dspVars, shimVars>>

\* one call fn(lhs, r) and its effect on the accumulated value
Call(fn, EXCLUSIVE, r, outcomes) ==
  /\ upc = "live"
  /\ ncalls < MaxCalls
  /\ \E out \in outcomes :
       /\ lhs' = out.lhs
       /\ ucall' = [fn |-> fn, EXCLUSIVE |-> EXCLUSIVE, pre |-> lhs, rhs |-> r,
                    dispatched |-> out.dispatched, overload |-> out.overload,
                    outcome |-> out.outcome]
       /\ upc' = IF out.outcome = "returned" THEN "live" ELSE "aborted"
  /\ ncalls' = ncalls + 1
  /\ rhs_codes' = rhs_codes \cup {r.code}
  /\ UNCHANGED uop
  /\ UNCHANGED <<redVars, dspVars, shimVars>>

Apply ==
  \E EXCLUSIVE \in BOOLEAN, r \in RhsValues :
    Call("apply", EXCLUSIVE, r, UntypedScalarRedOp_apply(EXCLUSIVE, lhs, r))

Fold ==
  \E EXCLUSIVE \in BOOLEAN, r \in RhsValues :
    Call("fold", EXCLUSIVE, r, UntypedScalarRedOp_fold(EXCLUSIVE, lhs, r))

NextUntyped == Construct \/ Apply \/ Fold

----------------------------------------------------------------------------
(* op_dispatch *)

\* the invocation f.template operator()<OP>(std::forward<Fnargs>(args)...)
Invocation(OP, args) == [OP |-> OP, args |-> args]

\* (mutant) the PROD case invokes the SUM specialization
op_dispatchProdAsSum(op, args) ==
  IF op = MAX THEN [invoked |-> <<Invocation(MAX, args)>>, outcome |-> "returned"]
  ELSE IF op = MIN THEN [invoked |-> <<Invocation(MIN, args)>>, outcome |-> "returned"]
  ELSE IF op = PROD THEN [invoked |-> <<Invocation(SUM, args)>>, outcome |-> "returned"]
  ELSE IF op = SUM THEN [invoked |-> <<Invocation(SUM, args)>>, outcome |-> "returned"]
  ELSE [invoked |-> <<>>, outcome |-> "assert"]

\* op_dispatch(op_code, f, args...): the specializations of f it invokes and
\* how the call ends. After the switch comes assert(false); the return
\* statement behind it runs only in a build without assertions
op_dispatch(op, args) ==
  IF op = MAX THEN [invoked |-> <<Invocation(MAX, args)>>, outcome |-> "returned"]
  ELSE IF op = MIN THEN [invoked |-> <<Invocation(MIN, args)>>, outcome |-> "returned"]
  ELSE IF op = PROD THEN [invoked |-> <<Invocation(PROD, args)>>, outcome |-> "returned"]
  ELSE IF op = SUM THEN [invoked |-> <<Invocation(SUM, args)>>, outcome |-> "returned"]
  ELSE IF NDEBUG
       THEN [invoked |-> <<Invocation(MAX, args)>>, outcome |-> "returned"]
  ELSE [invoked |-> <<>>, outcome |-> "assert"]

FnArgs == UNION {[1 .. n -> 0 .. MaxArgVal] : n \in 0 .. MaxArgs}

\* one call of op_dispatch
OpDispatch ==
  /\ dpc = "idle"
  /\ \E op \in 0 .. MaxOpCode, args \in FnArgs :
       LET r == op_dispatch(op, args)
       IN  /\ dcode' = op
           /\ dargs' = args
           /\ invoked' = r.invoked
           /\ dpc' = IF r.outcome = "returned" THEN "returned" ELSE "aborted"
  /\ UNCHANGED <<redVars, untVars, shimVars>>

NextDsp == OpDispatch

----------------------------------------------------------------------------
(* The repeat and transpose tasks *)

\* Rect<DIM>: lo and hi in each dimension; empty when some hi is below lo
Rects(DIM) == [lo : [1 .. DIM -> 0 .. MaxCoord], hi : [1 .. DIM -> 0 .. MaxCoord]]
empty(rect) == \E d \in DOMAIN rect.lo : rect.hi[d] < rect.lo[d]

\* (mutant) the empty output is bound whatever scalar_repeats is
RepeatImplAlwaysBinds(args) ==
  <<"input.read_accessor">> \o
  IF empty(args.input_rect)
  THEN <<"output.bind_empty_data">>
  ELSE IF args.scalar_repeats
       THEN <<"RepeatImplBody(repeats)">>
       ELSE <<"repeats_arr.read_accessor", "RepeatImplBody(repeats_arr)">>

\* RepeatImpl<KIND>::operator()<CODE, DIM>(args): what it does, in order
RepeatImpl(args) ==
  <<"input.read_accessor">> \o
  IF empty(args.input_rect)
  THEN (IF ~args.scalar_repeats THEN <<"output.bind_empty_data">> ELSE <<>>)
  ELSE IF args.scalar_repeats
       THEN <<"RepeatImplBody(repeats)">>
       ELSE <<"repeats_arr.read_accessor", "RepeatImplBody(repeats_arr)">>

\* repeat_template<KIND>(context): the RepeatArgs it builds from the scalars
\* and stores of the task, then the double dispatch to RepeatImpl
repeat_template ==
  /\ spc = "idle"
  /\ \E scalar_repeats \in BOOLEAN, DIM \in 1 .. MaxDim :
       \E axis \in 0 .. DIM - 1, input_rect \in Rects(DIM),
          repeats \in 0 .. MaxRepeats :
         LET args == [input_rect |-> input_rect,
                      repeats_arr |-> IF scalar_repeats THEN "nullptr" ELSE "input(1)",
                      repeats |-> IF scalar_repeats THEN repeats ELSE 0,
                      axis |-> axis,
                      scalar_repeats |-> scalar_repeats]
         IN  /\ targs' = args
             /\ events' = RepeatImpl(args)
  /\ task' = "repeat"
  /\ spc' = "returned"
  /\ UNCHANGED <<redVars, untVars, dspVars>>

\* TransposeImpl<KIND>::operator()<CODE>(args): what it does, in order
TransposeImpl(args) ==
  IF empty(args.rect) THEN <<>>
  ELSE <<"out.write_accessor", "in.read_accessor", "TransposeImplBody">>

\* transpose_template<KIND>(context)
transpose_template ==
  /\ spc = "idle"
  /\ \E rect \in Rects(2) :
       LET args == [rect |-> rect]
       IN  /\ targs' = args
           /\ events' = TransposeImpl(args)
  /\ task' = "transpose"
  /\ spc' = "returned"
  /\ UNCHANGED <<redVars, untVars, dspVars>>

NextShim == repeat_template \/ transpose_template

DspIdle == dpc = "idle" /\ dcode = 0 /\ dargs = <<>> /\ invoked = <<>>

ShimIdle == spc = "idle" /\ task = "" /\ targs = <<>> /\ events = <<>>

Init == RedIdle /\ UntIdle /\ DspIdle /\ ShimIdle

NextRed ==
  \/ Enter
  \/ \E tid \in 0 .. MaxThreads - 1 : DenseLoop(tid)
  \/ \E tid \in 0 .. MaxThreads - 1 : unary_reduction_loop(tid)
  \/ Join
  \/ Combine
  \/ Return

SpecRed == Init /\ [][NextRed]_vars

SpecUntyped == Init /\ [][NextUntyped]_vars

SpecDispatch == Init /\ [][NextDsp]_vars

SpecShim == Init /\ [][NextShim]_vars

----------------------------------------------------------------------------
(* Properties of the OpenMP reduction *)

\* folding a sequence of values into an accumulator, left to right
RECURSIVE FoldSeq(_, _, _, _)
FoldSeq(OP_CODE, CODE, acc, s) ==
  IF s = <<>> THEN acc
  ELSE FoldSeq(OP_CODE, CODE, UnaryRedOp_fold(OP_CODE, CODE, acc, Head(s)), Tail(s))

\* the elements the schedule gives lane tid, in index order
RECURSIVE LaneElems(_, _)
LaneElems(tid, i) ==
  IF i > Len(inptr) THEN <<>>
  ELSE IF owner[i] = tid THEN <<inptr[i]>> \o LaneElems(tid, i + 1)
  ELSE LaneElems(tid, i + 1)

\* the accumulators as a sequence, lane 0 first
LocalsSeq == [i \in 1 .. max_threads |-> locals[i - 1]]

\* the accumulator of each lane once it has folded all of its elements
LanePartials ==
  [i \in 1 .. max_threads |->
     FoldSeq(op_code, code, identity(op_code, code), LaneElems(i - 1, 1))]

\* C1: with result and every lane accumulator seeded with identity, after
\* the lanes have folded their elements each accumulator is the fold of its
\* lane's elements, and the final result equals the fold of the whole input
\* in its original order on one lane, for every operator, integer or boolean
\* type, lane count and assignment of elements to lanes.
C1_LanesThenCombineEqualsSequentialFold ==
  /\ rpc \in {"combine", "done"} => LocalsSeq = LanePartials
  /\ rpc = "done" =>
       result = FoldSeq(op_code, code, identity(op_code, code), inptr)

C1_Witness ==
  /\ rpc = "done" /\ op_code = SUM /\ code = "UINT32_LT" /\ max_threads = 2
  /\ inptr = <<3, 2>> /\ owner = <<0, 1>>
  /\ locals[0] = 3 /\ locals[1] = 2 /\ result = 1

\* C6: a reduction over an empty domain folds no element, every lane
\* accumulator holds identity at the combine step, and the result equals
\* identity throughout the combine and on return.
C6_EmptyDomainYieldsIdentity ==
  (rpc \in {"parallel", "combine", "done"} /\ Len(inptr) = 0) =>
     /\ visited = {} /\ touched = {}
     /\ \A t \in 0 .. max_threads - 1 : locals[t] = identity(op_code, code)
     /\ result = identity(op_code, code)

C6_Witness ==
  /\ rpc = "done" /\ inptr = <<>> /\ op_code = MAX /\ code = "INT32_LT"
  /\ max_threads = 2 /\ combined = <<0, 1>> /\ result = lowest("INT32_LT")

\* C7: in the parallel phase a lane accesses only its own accumulator and
\* the shared result is not written; result is written only by the
\* sequential combine, which begins only after every lane has folded all of
\* its elements.
C7_LanePrivateAccumulatorsAndBarrier ==
  /\ \A a \in touched : a[2] = a[1]
  /\ rpc = "parallel" =>
       (combined = <<>> /\ result = ResultOnEntry(op_code, code))
  /\ rpc \in {"combine", "done"} => visited = 1 .. Len(inptr)
  /\ combined # <<>> => rpc \in {"combine", "done"}

C7_Witness ==
  /\ rpc = "parallel" /\ max_threads = 2 /\ owner = <<0, 1>>
  /\ visited = {2} /\ touched = {<<1, 1>>}
  /\ locals[0] = identity(op_code, code) /\ locals[1] # identity(op_code, code)

\* C9: the combine folds the accumulators into result one at a time in lane
\* index order 0, 1, ..., max_threads-1, each exactly once, also those of
\* lanes that received no element; the result is therefore determined by the
\* operator, the input, the lane count and the assignment of elements.
C9_CombineInLaneIndexOrder ==
  /\ rpc = "combine" => combined = [i \in 1 .. idx |-> i - 1]
  /\ rpc = "done" =>
       /\ combined = [i \in 1 .. max_threads |-> i - 1]
       /\ result = FoldSeq(op_code, code, ResultOnEntry(op_code, code), LanePartials)

C9_Witness ==
  /\ rpc = "done" /\ max_threads = 2 /\ combined = <<0, 1>>
  /\ Len(inptr) = 2 /\ owner = <<0, 0>>
  /\ locals[1] = identity(op_code, code) /\ op_code = PROD /\ result = 2

----------------------------------------------------------------------------
(* Properties of the type-erased reduction value and of the registry *)

Called == ucall.fn \in {"apply", "fold"}

\* C2: when apply or fold is called on an empty left-hand value (tag
\* MAX_TYPE_NUMBER) no typed operator is dispatched, and after the call the
\* left-hand value's tag and payload equal the right-hand value's, for every
\* operator code and every right-hand value.
C2_EmptyLhsIsAssignment ==
  (Called /\ ucall.pre.code = MAX_TYPE_NUMBER) =>
     /\ ucall.dispatched = "none" /\ ucall.overload = "none"
     /\ ucall.EXCLUSIVE => ucall.outcome = "returned"
     /\ ucall.outcome = "returned" =>
          (lhs.code = ucall.rhs.code /\ lhs.payload = ucall.rhs.payload)

C2_Witness ==
  /\ ucall.fn = "fold" /\ ucall.pre = EmptyScalar /\ uop = MAX
  /\ ucall.rhs = TypedScalar("COMPLEX128_LT", 1) /\ lhs = ucall.rhs
  /\ ucall.outcome = "returned" /\ upc = "live"

\* C3: apply or fold on a non-empty left-hand value whose (operator, type)
\* pair the registry marks invalid ends in an assertion failure: the call
\* does not return, no typed operator runs and no value is produced.
C3_InvalidPairAsserts ==
  (Called /\ ucall.pre.code \in LegateTypeCode /\ ~valid(uop, ucall.pre.code)) =>
     /\ ucall.outcome = "assert" /\ upc = "aborted"
     /\ ucall.overload \notin {"OP::apply", "OP::fold"}
     /\ lhs = ucall.pre

C3_Witness ==
  /\ ucall.fn = "apply" /\ ucall.EXCLUSIVE /\ uop = PROD
  /\ ucall.pre = TypedScalar("COMPLEX128_LT", 0)
  /\ ucall.overload = "assert(false)" /\ ucall.outcome = "assert"
  /\ upc = "aborted"

\* the overload enable_if selected in the last dispatch is the asserting one
SelectedInvalid == ucall.overload = "assert(false)"

\* C8 as stated: valid is false for MAX and MIN over both complex types and
\* true for MAX, MIN, PROD and SUM over every non-complex type.
C8_AsStated ==
  ucall.dispatched \in LegateTypeCode =>
     /\ (uop \in {MAX, MIN} /\ ucall.dispatched \in ComplexCodes) =>
          (SelectedInvalid /\ ~valid(uop, ucall.dispatched))
     /\ ucall.dispatched \notin ComplexCodes =>
          (~SelectedInvalid /\ valid(uop, ucall.dispatched))

\* C8 amended: valid is false for MAX and MIN over COMPLEX128_LT, true for
\* MAX and MIN over COMPLEX64_LT, and true for MAX, MIN, PROD and SUM over
\* every non-complex type.
C8_Complex128Only ==
  ucall.dispatched \in LegateTypeCode =>
     /\ (uop \in {MAX, MIN} /\ ucall.dispatched = "COMPLEX128_LT") =>
          (SelectedInvalid /\ ~valid(uop, ucall.dispatched))
     /\ (uop \in {MAX, MIN} /\ ucall.dispatched = "COMPLEX64_LT") =>
          (~SelectedInvalid /\ valid(uop, ucall.dispatched))
     /\ ucall.dispatched \notin ComplexCodes =>
          (~SelectedInvalid /\ valid(uop, ucall.dispatched))

C8_Witness ==
  /\ uop = MAX /\ ucall.fn = "apply" /\ ucall.dispatched = "COMPLEX64_LT"
  /\ ucall.overload = "OP::apply" /\ ucall.outcome = "returned"
  /\ Len(lhs.payload) = 2

\* every right-hand value passed so far is non-empty and of one element type
Homogeneous == rhs_codes \subseteq LegateTypeCode /\ Cardinality(rhs_codes) <= 1

\* C10: over calls whose right-hand values are all non-empty and of one type
\* T, the accumulated tag is the empty sentinel only while no call has
\* returned and T afterwards; a call on a typed value leaves the tag as it
\* was, and a typed merge is dispatched on the accumulated value's tag T.
C10_TagLifecycle ==
  Homogeneous =>
     /\ lhs.code \in {MAX_TYPE_NUMBER} \cup rhs_codes
     /\ lhs.code = MAX_TYPE_NUMBER =>
          (ncalls = 0 \/ (ncalls = 1 /\ ucall.outcome # "returned"))
     /\ (Called /\ ucall.pre.code # MAX_TYPE_NUMBER) => lhs.code = ucall.pre.code
     /\ ucall.dispatched # "none" =>
          (ucall.dispatched = ucall.pre.code /\ ucall.dispatched \in rhs_codes)

C10_Witness ==
  /\ ncalls = 2 /\ rhs_codes = {"INT32_LT"} /\ lhs.code = "INT32_LT"
  /\ ucall.fn = "fold" /\ ucall.dispatched = "INT32_LT"
  /\ ucall.outcome = "returned" /\ lhs.payload = << <<"INT32_LT", 0>>, <<"INT32_LT", 1>> >>

----------------------------------------------------------------------------
(* Properties of op_dispatch and of the empty-domain handling *)

\* C4: a call of op_dispatch with an operator code in {MAX, MIN, PROD, SUM}
\* invokes exactly one specialization of the callable, the one for that
\* code, with the extra arguments unchanged; a call with any other code
\* fails its assertion and invokes no specialization.
C4_ExactlyOneMatchingSpecialization ==
  dpc # "idle" =>
     /\ dcode \in UnaryRedCode =>
          (dpc = "returned" /\ invoked = <<Invocation(dcode, dargs)>>)
     /\ dcode \notin UnaryRedCode => (dpc = "aborted" /\ invoked = <<>>)

C4_Witness ==
  /\ dpc = "aborted" /\ dcode = 5 /\ dargs = <<3, 1>> /\ invoked = <<>>

EmptyDomain ==
  /\ spc = "returned"
  /\ IF task = "repeat" THEN empty(targs.input_rect) ELSE empty(targs.rect)

Ran(e) == \E i \in 1 .. Len(events) : events[i] = e

Accessors ==
  {"input.read_accessor", "repeats_arr.read_accessor", "out.write_accessor",
   "in.read_accessor"}

Bodies == {"RepeatImplBody(repeats)", "RepeatImplBody(repeats_arr)", "TransposeImplBody"}

\* C5 as stated: on an empty domain neither task invokes its kernel body or
\* touches an accessor; RepeatImpl binds an empty output exactly when
\* scalar_repeats is false; TransposeImpl creates no accessor.
C5_AsStated ==
  EmptyDomain =>
     /\ \A e \in Bodies \cup Accessors : ~Ran(e)
     /\ task = "repeat" => (Ran("output.bind_empty_data") <=> ~targs.scalar_repeats)
     /\ task = "transpose" => events = <<>>

\* C5 amended: on an empty domain neither task invokes its kernel body.
\* RepeatImpl creates the read accessor of its input before it tests for
\* emptiness and no other accessor, and binds an empty output exactly when
\* scalar_repeats is false; TransposeImpl returns before it creates any
\* accessor.
C5_EmptyDomainShortCircuit ==
  EmptyDomain =>
     /\ \A e \in Bodies : ~Ran(e)
     /\ task = "repeat" =>
          events = <<"input.read_accessor">> \o
                   (IF targs.scalar_repeats THEN <<>> ELSE <<"output.bind_empty_data">>)
     /\ task = "transpose" => events = <<>>

C5_Witness ==
  /\ EmptyDomain /\ task = "repeat" /\ ~targs.scalar_repeats
  /\ events = <<"input.read_accessor", "output.bind_empty_data">>

====
